---- MODULE Spec2Model ----
(***************************************************************************)
(* Model of the nullable 8-bit integer null.Int8 (src/int8.go): its        *)
(* constructors, its JSON / text / database conversions, SetValid, Ptr and *)
(* Randomize.  Byte strings are sequences of one-character strings and the *)
(* conversions (strconv.ParseInt, strconv.FormatInt, the JSON decoder) are *)
(* computed character by character.                                        *)
(***************************************************************************)
EXTENDS Integers, Sequences, FiniteSets, TLC

VARIABLES i, j, err, errJ, lastOp, arg, out, pre, p, cell, pc

vars == <<i, j, err, errJ, lastOp, arg, out, pre, p, cell, pc>>

(***************************************************************************)
(* Bounds of the model.                                                    *)
(***************************************************************************)
\* longest digit/letter body of a generated text input (a sign may precede it)
MaxDigits == 3

\* math.MaxInt8 and the least int8
MaxInt8 == 127
MinInt8 == -128

\* int8 values the caller constructs receivers from and passes to SetValid
Int8Samples == {MinInt8, -1, 0, 5, 42, MaxInt8}

\* characters of the generated bodies: digits that spell 0, 128, -128, -129,
\* and a letter that is no digit
BodyChars == {"0", "1", "2", "8", "9", "a"}

Quote == "\""

(***************************************************************************)
(* Bytes and integers.                                                     *)
(***************************************************************************)
Digits == {"0", "1", "2", "3", "4", "5", "6", "7", "8", "9"}

DigitVal(c) ==
    CASE c = "0" -> 0 [] c = "1" -> 1 [] c = "2" -> 2 [] c = "3" -> 3
      [] c = "4" -> 4 [] c = "5" -> 5 [] c = "6" -> 6 [] c = "7" -> 7
      [] c = "8" -> 8 [] c = "9" -> 9

DigitChar(d) ==
    CASE d = 0 -> "0" [] d = 1 -> "1" [] d = 2 -> "2" [] d = 3 -> "3"
      [] d = 4 -> "4" [] d = 5 -> "5" [] d = 6 -> "6" [] d = 7 -> "7"
      [] d = 8 -> "8" [] d = 9 -> "9"

Tail2(s, k) == SubSeq(s, k, Len(s))

IsDigits(s) == Len(s) > 0 /\ \A k \in 1..Len(s) : s[k] \in Digits

\* Go's int8(r) conversion of an int64: the low 8 bits, two's complement
ToInt8(r) == ((r + 128) % 256) - 128

\* Go's % on int64 truncates toward zero: the result has the dividend's sign
GoRem(a, b) == IF a >= 0 THEN a % b ELSE -((-a) % b)

\* the unsigned accumulation loop of strconv.ParseUint, left to right
RECURSIVE ParseUint(_, _)
ParseUint(s, acc) ==
    IF s = <<>> THEN acc ELSE ParseUint(Tail(s), acc * 10 + DigitVal(Head(s)))

\* strconv.ParseInt(s, 10, bitSize): [r, err].  A syntax error yields 0, a range
\* error yields the nearest bound.  Only bitSize 8 has a cutoff here: no input of
\* the bounded length reaches the 64-bit cutoff 2^63.
ParseIntNoRange(s, bitSize) ==
    LET signed == s # <<>> /\ Head(s) \in {"+", "-"}
        neg    == s # <<>> /\ Head(s) = "-"
        body   == IF signed THEN Tail(s) ELSE s
    IN  IF ~IsDigits(body) THEN [r |-> 0, err |-> "parse_syntax"]
        ELSE [r |-> IF neg THEN -ParseUint(body, 0) ELSE ParseUint(body, 0),
              err |-> "nil"]

ParseInt(s, bitSize) ==
    LET signed == s # <<>> /\ Head(s) \in {"+", "-"}
        neg    == s # <<>> /\ Head(s) = "-"
        body   == IF signed THEN Tail(s) ELSE s
        cutoff == 128
        un     == ParseUint(body, 0)
    IN  IF ~IsDigits(body) THEN [r |-> 0, err |-> "parse_syntax"]
        ELSE IF bitSize = 8 /\ ~neg /\ un >= cutoff
             THEN [r |-> cutoff - 1, err |-> "parse_range"]
        ELSE IF bitSize = 8 /\ neg /\ un > cutoff
             THEN [r |-> -cutoff, err |-> "parse_range"]
        ELSE [r |-> IF neg THEN -un ELSE un, err |-> "nil"]

\* strconv.FormatInt(n, 10)
RECURSIVE FormatUint(_)
FormatUint(n) ==
    IF n < 10 THEN <<DigitChar(n)>>
    ELSE Append(FormatUint(n \div 10), DigitChar(n % 10))

FormatIntAbs(n) == IF n < 0 THEN FormatUint(-n) ELSE FormatUint(n)

FormatInt(n) == IF n < 0 THEN <<"-">> \o FormatUint(-n) ELSE FormatUint(n)

(***************************************************************************)
(* encoding/json as int8.go uses it.                                       *)
(***************************************************************************)
NullBytes == <<"n", "u", "l", "l">>

RECURSIVE TrimLeft(_)
TrimLeft(s) == IF s # <<>> /\ Head(s) = " " THEN TrimLeft(Tail(s)) ELSE s

RECURSIVE TrimRight(_)
TrimRight(s) ==
    IF s # <<>> /\ s[Len(s)] = " " THEN TrimRight(SubSeq(s, 1, Len(s) - 1)) ELSE s

Trim(s) == TrimRight(TrimLeft(s))

\* first position of a character of cs in s, 0 when there is none
IndexOf(s, cs) ==
    IF \E k \in 1..Len(s) : s[k] \in cs
    THEN CHOOSE k \in 1..Len(s) : s[k] \in cs /\ \A m \in 1..(k - 1) : s[m] \notin cs
    ELSE 0

\* the integer part of a JSON number: -? ( 0 | [1-9][0-9]* )
IsJSONInt(s) ==
    LET t == IF s # <<>> /\ Head(s) = "-" THEN Tail(s) ELSE s
    IN  IsDigits(t) /\ (Len(t) > 1 => t[1] # "0")

\* a JSON number literal: int frac? exp?
IsJSONNumber(s) ==
    LET e    == IndexOf(s, {"e", "E"})
        mant == IF e = 0 THEN s ELSE SubSeq(s, 1, e - 1)
        ex   == IF e = 0 THEN <<>> ELSE Tail2(s, e + 1)
        exd  == IF ex # <<>> /\ Head(ex) \in {"+", "-"} THEN Tail(ex) ELSE ex
        d    == IndexOf(mant, {"."})
        ip   == IF d = 0 THEN mant ELSE SubSeq(mant, 1, d - 1)
        fp   == IF d = 0 THEN <<>> ELSE Tail2(mant, d + 1)
    IN  /\ IsJSONInt(ip)
        /\ d # 0 => IsDigits(fp)
        /\ e # 0 => IsDigits(exd)

\* a JSON string literal without escapes: its content is the bytes between the quotes
IsJSONString(s) ==
    /\ Len(s) >= 2
    /\ s[1] = Quote
    /\ s[Len(s)] = Quote
    /\ \A k \in 2..(Len(s) - 1) : s[k] \notin {Quote, "\\"}

\* json.Unmarshal(data, &v) with v interface{}: the dynamic kind of the document,
\* or a syntax error.  Of arrays and objects only the empty ones are recognised.
JSONUnmarshal(data) ==
    LET t == Trim(data)
        none == [err |-> "nil", kind |-> "nil", str |-> <<>>]
    IN  CASE t = NullBytes -> none
          [] IsJSONString(t) ->
                [none EXCEPT !.kind = "string", !.str = SubSeq(t, 2, Len(t) - 1)]
          [] IsJSONNumber(t) -> [none EXCEPT !.kind = "float64"]
          [] t \in {<<"t", "r", "u", "e">>, <<"f", "a", "l", "s", "e">>} ->
                [none EXCEPT !.kind = "bool"]
          [] t = <<"[", "]">> -> [none EXCEPT !.kind = "array"]
          [] t = <<"{", "}">> -> [none EXCEPT !.kind = "object"]
          [] OTHER -> [none EXCEPT !.err = "syntax"]

\* json.Unmarshal(data, &r) with r int64, data a number literal: the literal is
\* parsed with ParseInt(.., 10, 64); a fraction or exponent is a type error and
\* leaves r at 0
JSONUnmarshalInt64(data) ==
    LET q == ParseInt(Trim(data), 64)
    IN  IF q.err = "nil" THEN [r |-> q.r, err |-> "nil"] ELSE [r |-> 0, err |-> "type"]

(***************************************************************************)
(* null.Int8: the type, its constructors and its methods.  A method with a *)
(* pointer receiver yields the receiver it leaves and the error it returns.*)
(***************************************************************************)
\* type Int8 struct { Int8 int8; Valid bool }
Int8Struct(v, valid) == [Int8 |-> v, Valid |-> valid]

NewInt8(v, valid) == Int8Struct(v, valid)

Int8From(v) == NewInt8(v, TRUE)

\* a *int8 argument: nil, or a pointer to val
NilPtr == [isNil |-> TRUE, val |-> 0]
PtrTo(v) == [isNil |-> FALSE, val |-> v]

Int8FromPtr(ptr) == IF ptr.isNil THEN NewInt8(0, FALSE) ELSE NewInt8(ptr.val, TRUE)

\* line 76: r > math.MaxInt8
OverflowsUint8(r) == r > 255

Overflows(r) == r > MaxInt8

\* line 81: (err == nil) && (i.Int8 != 0)
ValidAfterIgnoringErr(e, v) == v # 0

ValidAfter(e, v) == e = "nil" /\ v # 0

UnmarshalJSON(recv, data) ==
    IF data = NullBytes
    THEN [recv |-> Int8Struct(0, FALSE), err |-> "nil"]
    ELSE
      LET v == JSONUnmarshal(data)
          d == CASE v.kind = "float64" -> JSONUnmarshalInt64(data)
                 [] v.kind = "string" -> ParseInt(v.str, 8)
                 [] OTHER -> [r |-> 0, err |-> "kind"]
      IN  IF v.err # "nil" THEN [recv |-> recv, err |-> v.err]
          ELSE IF v.kind = "string" /\ Len(v.str) = 0
               THEN [recv |-> [recv EXCEPT !.Valid = FALSE], err |-> "nil"]
          ELSE IF v.kind = "nil"
               THEN [recv |-> [recv EXCEPT !.Valid = FALSE], err |-> "nil"]
          ELSE IF Overflows(d.r) THEN [recv |-> recv, err |-> "overflow"]
          ELSE [recv |-> Int8Struct(ToInt8(d.r), ValidAfter(d.err, ToInt8(d.r))),
                err |-> d.err]

UnmarshalTextKeepValid(recv, text) ==
    LET res == ParseInt(text, 8)
    IN  IF Len(text) = 0 THEN [recv |-> recv, err |-> "nil"]
        ELSE IF res.err = "nil"
             THEN [recv |-> Int8Struct(ToInt8(res.r), TRUE), err |-> "nil"]
        ELSE [recv |-> [recv EXCEPT !.Valid = FALSE], err |-> res.err]

UnmarshalText(recv, text) ==
    LET res == ParseInt(text, 8)
    IN  IF Len(text) = 0 THEN [recv |-> [recv EXCEPT !.Valid = FALSE], err |-> "nil"]
        ELSE IF res.err = "nil"
             THEN [recv |-> Int8Struct(ToInt8(res.r), TRUE), err |-> "nil"]
        ELSE [recv |-> [recv EXCEPT !.Valid = FALSE], err |-> res.err]

\* values crossing a boundary: bytes on the wire, a driver.Value, a bool
Val(kind, bytes, n) == [kind |-> kind, bytes |-> bytes, n |-> n]
NoVal == Val("none", <<>>, 0)

MarshalJSONIgnoringValid(recv) == Val("json", FormatInt(recv.Int8), 0)

MarshalJSON(recv) ==
    IF ~recv.Valid THEN Val("json", NullBytes, 0)
    ELSE Val("json", FormatInt(recv.Int8), 0)

MarshalText(recv) ==
    IF ~recv.Valid THEN Val("text", <<>>, 0)
    ELSE Val("text", FormatInt(recv.Int8), 0)

SetValid(recv, n) == Int8Struct(n, TRUE)

\* Ptr has a value receiver: &i.Int8 is the address of the callee's copy of the
\* struct ("copy"), not of the caller's variable ("recv")
PtrAlias(recv) ==
    IF ~recv.Valid THEN [p |-> "nil", cell |-> 0] ELSE [p |-> "recv", cell |-> 0]

Ptr(recv) ==
    IF ~recv.Valid THEN [p |-> "nil", cell |-> 0]
    ELSE [p |-> "copy", cell |-> recv.Int8]

IsZero(recv) == Val("bool", <<>>, IF ~recv.Valid THEN 1 ELSE 0)

\* convert.ConvertAssign(&i.Int8, value) for an int8 destination: the driver value
\* is rendered as a string and parsed as an 8-bit integer; on failure the
\* destination is left as it was
AsString(value) == IF value.kind = "int64" THEN FormatInt(value.n) ELSE value.bytes

ConvertAssign(dest, value) ==
    LET q == ParseInt(AsString(value), 8)
    IN  IF q.err = "nil" THEN [val |-> ToInt8(q.r), err |-> "nil"]
        ELSE [val |-> dest, err |-> "convert"]

ScanNilKeepsValue(recv, value) ==
    IF value.kind = "nil" THEN [recv |-> [recv EXCEPT !.Valid = FALSE], err |-> "nil"]
    ELSE LET c == ConvertAssign(recv.Int8, value)
         IN  [recv |-> Int8Struct(c.val, TRUE), err |-> c.err]

Scan(recv, value) ==
    IF value.kind = "nil" THEN [recv |-> Int8Struct(0, FALSE), err |-> "nil"]
    ELSE LET c == ConvertAssign(recv.Int8, value)
         IN  [recv |-> Int8Struct(c.val, TRUE), err |-> c.err]

ValueKeepsInvalid(recv) == Val("int64", <<>>, recv.Int8)

Value(recv) ==
    IF ~recv.Valid THEN Val("nil", <<>>, 0) ELSE Val("int64", <<>>, recv.Int8)

RandomizeNoZero(recv, nextInt, shouldBeNull) ==
    IF shouldBeNull THEN [recv EXCEPT !.Valid = FALSE]
    ELSE Int8Struct(ToInt8(GoRem(nextInt, MaxInt8)), TRUE)

Randomize(recv, nextInt, shouldBeNull) ==
    IF shouldBeNull THEN Int8Struct(0, FALSE)
    ELSE Int8Struct(ToInt8(GoRem(nextInt, MaxInt8)), TRUE)

(***************************************************************************)
(* Inputs.                                                                 *)
(***************************************************************************)
Bodies == UNION {[1..n -> BodyChars] : n \in 0..MaxDigits}

\* text inputs: an optional sign and a body; among them "", "0", "128", "-128",
\* "-129", "+1", "-", "1a"
TextInputs == Bodies \cup {<<"-">> \o b : b \in Bodies} \cup {<<"+">> \o b : b \in Bodies}

Quoted(s) == <<Quote>> \o s \o <<Quote>>

\* JSON documents: every text input bare (a number literal or malformed) and as a
\* JSON string, and the literals, padding, fractions and exponents
JSONInputs ==
    TextInputs \cup {Quoted(s) : s \in TextInputs}
      \cup { NullBytes, <<" ">> \o NullBytes, <<" ", "5">>,
             <<"t", "r", "u", "e">>, <<"f", "a", "l", "s", "e">>,
             <<"[", "]">>, <<"{", "}">>,
             <<"1", ".", "5">>, <<"1", "e", "2">>, <<"2", ".", "0">> }

\* driver values: NULL, int64 columns, text columns
DriverValues ==
    {Val("nil", <<>>, 0)}
      \cup {Val("int64", <<>>, n) : n \in Int8Samples \cup {-129, 128, 300}}
      \cup {Val("text", s, 0) : s \in {<<"4", "2">>, <<"a", "b", "c">>, <<>>}}

\* results of nextInt()
NextInts == {-200, -1, 0, 126, 127, 300}

\* prior states of the second receiver, which is handed the same input as the first
TwinPriors == {NewInt8(0, FALSE), Int8From(5)}

Decoders == {"UnmarshalJSON", "UnmarshalText", "Scan"}
Mutators == Decoders \cup {"SetValid", "Randomize"}

(***************************************************************************)
(* The state machine: a caller constructs an Int8 and then either calls    *)
(* one mutating method on it, or encodes it and decodes the encoding, or   *)
(* takes Ptr(), writes through the pointer and then mutates the source.    *)
(* i is the caller's Int8 and j a second Int8 that every decode call is    *)
(* repeated on; pre is i before the last call; p and cell are the pointer  *)
(* Ptr() returned and the copy it points into.                             *)
(***************************************************************************)
Constructed ==
    {[op |-> "NewInt8", recv |-> NewInt8(v, b), arg |-> Val("int8", <<>>, v)] :
        v \in Int8Samples, b \in BOOLEAN}
      \cup {[op |-> "Int8From", recv |-> Int8From(v), arg |-> Val("int8", <<>>, v)] :
              v \in Int8Samples}
      \cup {[op |-> "Int8FromPtr", recv |-> Int8FromPtr(PtrTo(v)),
             arg |-> Val("ptr", <<>>, v)] : v \in Int8Samples}
      \cup {[op |-> "Int8FromPtr", recv |-> Int8FromPtr(NilPtr), arg |-> Val("nil", <<>>, 0)]}

Init ==
    /\ \E c \in Constructed : i = c.recv /\ pre = c.recv /\ lastOp = c.op /\ arg = c.arg
    /\ j \in TwinPriors
    /\ err = "nil"
    /\ errJ = "nil"
    /\ out = NoVal
    /\ p = "nil"
    /\ cell = 0
    /\ pc = "ready"

\* what the pointer returned by Ptr() points at
Pointee == IF p = "recv" THEN i.Int8 ELSE cell

\* the bytes or driver value a decode call may be given: a generated input, or
\* after an encode call the value that call produced
Given(kinds, inputs) ==
    IF pc = "encoded" THEN (IF out.kind \in kinds THEN {out} ELSE {}) ELSE inputs

CallMarshalJSON ==
    /\ pc = "ready"
    /\ out' = MarshalJSON(i)
    /\ lastOp' = "MarshalJSON"
    /\ pc' = "encoded"
    /\ err' = "nil"
    /\ pre' = i
    /\ arg' = NoVal
    /\ UNCHANGED <<i, j, errJ, p, cell>>

CallMarshalText ==
    /\ pc = "ready"
    /\ out' = MarshalText(i)
    /\ lastOp' = "MarshalText"
    /\ pc' = "encoded"
    /\ err' = "nil"
    /\ pre' = i
    /\ arg' = NoVal
    /\ UNCHANGED <<i, j, errJ, p, cell>>

CallValue ==
    /\ pc = "ready"
    /\ out' = Value(i)
    /\ lastOp' = "Value"
    /\ pc' = "encoded"
    /\ err' = "nil"
    /\ pre' = i
    /\ arg' = NoVal
    /\ UNCHANGED <<i, j, errJ, p, cell>>

CallIsZero ==
    /\ pc = "ready"
    /\ out' = IsZero(i)
    /\ lastOp' = "IsZero"
    /\ pc' = "encoded"
    /\ err' = "nil"
    /\ pre' = i
    /\ arg' = NoVal
    /\ UNCHANGED <<i, j, errJ, p, cell>>

CallPtr ==
    /\ pc = "ready"
    /\ p' = Ptr(i).p
    /\ cell' = Ptr(i).cell
    /\ lastOp' = "Ptr"
    /\ pc' = "held"
    /\ pre' = i
    /\ arg' = NoVal
    /\ UNCHANGED <<i, j, err, errJ, out>>

\* the caller stores n through the pointer Ptr() returned
WritePtr ==
    /\ pc = "held"
    /\ p # "nil"
    /\ \E n \in Int8Samples :
         /\ arg' = Val("int8", <<>>, n)
         /\ IF p = "recv"
            THEN i' = [i EXCEPT !.Int8 = n] /\ cell' = cell
            ELSE cell' = n /\ i' = i
    /\ lastOp' = "WritePtr"
    /\ pre' = i
    /\ UNCHANGED <<j, err, errJ, out, p, pc>>

CallSetValid ==
    /\ pc \in {"ready", "held"}
    /\ \E n \in Int8Samples :
         /\ i' = SetValid(i, n)
         /\ arg' = Val("int8", <<>>, n)
    /\ lastOp' = "SetValid"
    /\ pc' = "returned"
    /\ err' = "nil"
    /\ pre' = i
    /\ UNCHANGED <<j, errJ, out, p, cell>>

CallRandomize ==
    /\ pc \in {"ready", "held"}
    /\ \E n \in NextInts, shouldBeNull \in BOOLEAN :
         /\ i' = Randomize(i, n, shouldBeNull)
         /\ arg' = Val(IF shouldBeNull THEN "null" ELSE "int64", <<>>, n)
    /\ lastOp' = "Randomize"
    /\ pc' = "returned"
    /\ err' = "nil"
    /\ pre' = i
    /\ UNCHANGED <<j, errJ, out, p, cell>>

CallUnmarshalJSON ==
    /\ pc \in {"ready", "held", "encoded"}
    /\ \E d \in Given({"json"}, {Val("json", b, 0) : b \in JSONInputs}) :
         /\ i' = UnmarshalJSON(i, d.bytes).recv
         /\ err' = UnmarshalJSON(i, d.bytes).err
         /\ j' = UnmarshalJSON(j, d.bytes).recv
         /\ errJ' = UnmarshalJSON(j, d.bytes).err
         /\ arg' = d
    /\ lastOp' = "UnmarshalJSON"
    /\ pc' = "returned"
    /\ pre' = i
    /\ UNCHANGED <<out, p, cell>>

CallUnmarshalText ==
    /\ pc \in {"ready", "held", "encoded"}
    /\ \E d \in Given({"text"}, {Val("text", b, 0) : b \in TextInputs}) :
         /\ i' = UnmarshalText(i, d.bytes).recv
         /\ err' = UnmarshalText(i, d.bytes).err
         /\ j' = UnmarshalText(j, d.bytes).recv
         /\ errJ' = UnmarshalText(j, d.bytes).err
         /\ arg' = d
    /\ lastOp' = "UnmarshalText"
    /\ pc' = "returned"
    /\ pre' = i
    /\ UNCHANGED <<out, p, cell>>

CallScan ==
    /\ pc \in {"ready", "held", "encoded"}
    /\ \E d \in Given({"nil", "int64"}, DriverValues) :
         /\ i' = Scan(i, d).recv
         /\ err' = Scan(i, d).err
         /\ j' = Scan(j, d).recv
         /\ errJ' = Scan(j, d).err
         /\ arg' = d
    /\ lastOp' = "Scan"
    /\ pc' = "returned"
    /\ pre' = i
    /\ UNCHANGED <<out, p, cell>>

Next ==
    \/ CallMarshalJSON
    \/ CallMarshalText
    \/ CallValue
    \/ CallIsZero
    \/ CallPtr
    \/ WritePtr
    \/ CallSetValid
    \/ CallRandomize
    \/ CallUnmarshalJSON
    \/ CallUnmarshalText
    \/ CallScan

Spec == Init /\ [][Next]_vars

(***************************************************************************)
(* What an input denotes, computed from the right with no range limit.     *)
(***************************************************************************)
Unsigned(s) == IF s # <<>> /\ Head(s) \in {"+", "-"} THEN Tail(s) ELSE s

\* s is an optional sign followed by one or more decimal digits
DenotesInt(s) == IsDigits(Unsigned(s))

RECURSIVE DecBody(_)
DecBody(b) ==
    IF b = <<>> THEN 0
    ELSE DigitVal(b[Len(b)]) + 10 * DecBody(SubSeq(b, 1, Len(b) - 1))

DecVal(s) == IF Head(s) = "-" THEN -DecBody(Unsigned(s)) ELSE DecBody(Unsigned(s))

\* s is the shortest decimal spelling of an integer: no plus sign, no leading zero
Canonical(s) ==
    /\ DenotesInt(s)
    /\ Head(s) # "+"
    /\ Len(Unsigned(s)) > 1 => Head(Unsigned(s)) # "0"
    /\ Head(s) = "-" => DecBody(Unsigned(s)) # 0

InInt8(n) == MinInt8 <= n /\ n <= MaxInt8

\* the JSON document b is a number literal spelling an integer
IsIntNumber(b) == b # <<>> /\ Canonical(b)

\* the JSON document b is a non-empty string spelling an integer; Inner is its content
Inner(b) == SubSeq(b, 2, Len(b) - 1)
IsIntString(b) ==
    Len(b) > 2 /\ Head(b) = Quote /\ b[Len(b)] = Quote /\ DenotesInt(Inner(b))

(***************************************************************************)
(* C1.                                                                     *)
(***************************************************************************)
\* C1 as stated: in every reachable state, Valid = FALSE implies the stored value
\* is 0.
C1_InvalidIsZero == ~i.Valid => i.Int8 = 0

\* C1 amended: Int8FromPtr, Scan and Randomize leave value 0 whenever they leave
\* Valid = FALSE, and so does UnmarshalJSON of the exact null literal; UnmarshalText
\* leaves the value untouched when it leaves Valid = FALSE, and UnmarshalJSON
\* leaves an invalid receiver with 0, the prior value or a clamped bound.
C1_ZeroingTransitions ==
    /\ (lastOp \in {"Int8FromPtr", "Scan", "Randomize"} /\ ~i.Valid) => i.Int8 = 0
    /\ (lastOp = "UnmarshalJSON" /\ arg.bytes = NullBytes) => i = Int8Struct(0, FALSE)
    /\ (lastOp = "UnmarshalText" /\ ~i.Valid) => i.Int8 = pre.Int8
    /\ (lastOp = "UnmarshalJSON" /\ ~i.Valid) => i.Int8 \in {0, pre.Int8, MaxInt8, MinInt8}

C1_Witness ==
    /\ lastOp = "Randomize"
    /\ arg.kind = "null"
    /\ pre = Int8From(5)
    /\ i = Int8Struct(0, FALSE)

(***************************************************************************)
(* C2.                                                                     *)
(***************************************************************************)
\* C2: UnmarshalJSON of the bytes MarshalJSON returned for a valid Int8 holding v
\* returns no error on either receiver; for v # 0 both receivers then equal
\* Int8From(v), for v = 0 both are left with Valid = FALSE.
C2_JSONRoundTrip ==
    (lastOp = "UnmarshalJSON" /\ out.kind = "json" /\ arg = out /\ pre.Valid) =>
        /\ err = "nil"
        /\ errJ = "nil"
        /\ pre.Int8 # 0 => (i = Int8From(pre.Int8) /\ j = Int8From(pre.Int8))
        /\ pre.Int8 = 0 => (~i.Valid /\ ~j.Valid)

C2_Witness ==
    /\ lastOp = "UnmarshalJSON"
    /\ out.kind = "json"
    /\ arg = out
    /\ pre = Int8From(MinInt8)
    /\ j = Int8From(MinInt8)

(***************************************************************************)
(* C3.                                                                     *)
(***************************************************************************)
NumberOver(b) == IsIntNumber(b) /\ DecVal(b) > MaxInt8
StringOver(b) == IsIntString(b) /\ DecVal(Inner(b)) > MaxInt8

\* C3 as stated: a JSON number or non-empty string denoting r > 127 makes
\* UnmarshalJSON fail with the overflow error and leaves the receiver as it was.
C3_OverflowAny ==
    (lastOp = "UnmarshalJSON" /\ (NumberOver(arg.bytes) \/ StringOver(arg.bytes))) =>
        (err = "overflow" /\ i = pre)

\* C3 amended: a JSON number written as a decimal integer literal r > 127 fails
\* with the overflow error and leaves the receiver as it was; a non-empty JSON
\* string denoting r > 127 fails with strconv's range error and leaves
\* value = 127, Valid = FALSE.
C3_OverflowNumberOnly ==
    lastOp = "UnmarshalJSON" =>
        /\ NumberOver(arg.bytes) => (err = "overflow" /\ i = pre)
        /\ StringOver(arg.bytes) => (err = "parse_range" /\ i = Int8Struct(MaxInt8, FALSE))

C3_Witness ==
    /\ lastOp = "UnmarshalJSON"
    /\ arg.bytes = <<"1", "2", "8">>
    /\ err = "overflow"
    /\ pre = Int8From(5)
    /\ i = pre

(***************************************************************************)
(* C4.                                                                     *)
(***************************************************************************)
EmptyJSONString == <<Quote, Quote>>

\* C4 as stated: after a decode call given to two receivers, value, Valid and the
\* error are the same on both, and decoding "" leaves the state decoding null
\* leaves (value 0, Valid FALSE).
C4_DeterminedByInput ==
    lastOp \in Decoders =>
        /\ i = j
        /\ err = errJ
        /\ (lastOp = "UnmarshalJSON" /\ arg.bytes = EmptyJSONString) =>
               i = Int8Struct(0, FALSE)

\* C4 amended: the error is the same on both receivers; when the call returns no
\* error Valid is the same on both, and the value too when Valid is TRUE.
\* Decoding "" returns no error and leaves Valid = FALSE like null, but keeps the
\* prior value.
C4_DeterminedOnSuccess ==
    lastOp \in Decoders =>
        /\ err = errJ
        /\ err = "nil" => (i.Valid = j.Valid /\ (i.Valid => i.Int8 = j.Int8))
        /\ (lastOp = "UnmarshalJSON" /\ arg.bytes = EmptyJSONString) =>
               (err = "nil" /\ ~i.Valid /\ i.Int8 = pre.Int8)

C4_Witness ==
    /\ lastOp = "UnmarshalJSON"
    /\ arg.bytes = EmptyJSONString
    /\ err = "nil"
    /\ ~i.Valid
    /\ ~j.Valid
    /\ i.Int8 # j.Int8

(***************************************************************************)
(* C5.                                                                     *)
(***************************************************************************)
\* C5: MarshalJSON returns no error; for an invalid Int8 it returns the null
\* literal whatever the value, for a valid one the canonical decimal spelling of
\* the value; the output never starts with a quote.
C5_MarshalJSON ==
    lastOp = "MarshalJSON" =>
        /\ err = "nil"
        /\ ~i.Valid => out.bytes = NullBytes
        /\ i.Valid => (Canonical(out.bytes) /\ DecVal(out.bytes) = i.Int8)
        /\ Head(out.bytes) # Quote

C5_Witness ==
    /\ lastOp = "MarshalJSON"
    /\ i = NewInt8(5, FALSE)
    /\ out.bytes = NullBytes

(***************************************************************************)
(* C6.                                                                     *)
(***************************************************************************)
\* C6: UnmarshalText of empty input leaves Valid = FALSE, no error and the value
\* untouched; of a decimal integer n in [-128,127] leaves value = n, Valid = TRUE
\* and no error; of anything else leaves Valid = FALSE and returns the parse error.
C6_UnmarshalText ==
    lastOp = "UnmarshalText" =>
        LET s  == arg.bytes
            ok == DenotesInt(s) /\ InInt8(DecVal(s))
        IN  /\ s = <<>> => (~i.Valid /\ err = "nil" /\ i.Int8 = pre.Int8)
            /\ ok => (i = Int8Struct(DecVal(s), TRUE) /\ err = "nil")
            /\ (s # <<>> /\ ~ok) => (~i.Valid /\ err \in {"parse_syntax", "parse_range"})

C6_Witness ==
    /\ lastOp = "UnmarshalText"
    /\ arg.bytes = <<"-", "1", "2", "8">>
    /\ pre = NewInt8(5, FALSE)
    /\ i = Int8From(MinInt8)

(***************************************************************************)
(* C7.                                                                     *)
(***************************************************************************)
\* C7: Ptr() returns nil exactly when Valid is FALSE and otherwise a pointer to
\* the current value; a later SetValid, UnmarshalJSON, UnmarshalText, Scan or
\* Randomize of the source leaves what the pointer points at unchanged, and a
\* write through the pointer leaves the source unchanged.
C7_PtrSnapshot ==
    [][ /\ lastOp' = "Ptr" => ((p' = "nil") <=> ~i.Valid)
        /\ (lastOp' = "Ptr" /\ i.Valid) => Pointee' = i.Int8
        /\ (lastOp' \in Mutators /\ p # "nil") => Pointee' = Pointee
        /\ lastOp' = "WritePtr" => (i' = i /\ Pointee' = arg'.n) ]_vars

C7_Witness ==
    /\ lastOp \in Decoders
    /\ p = "copy"
    /\ pre = Int8From(5)
    /\ Pointee = 5
    /\ i.Int8 # 5

(***************************************************************************)
(* C8.                                                                     *)
(***************************************************************************)
\* C8: Value() returns no error, nil for an invalid Int8 and the int64 equal to
\* the value for a valid one; Scan of that driver value returns no error on
\* either receiver and leaves Valid as the source's, with the source's value when
\* it was valid and 0 when it was not.
C8_DatabaseRoundTrip ==
    /\ lastOp = "Value" =>
          /\ err = "nil"
          /\ ~i.Valid => out.kind = "nil"
          /\ i.Valid => (out.kind = "int64" /\ out.n = i.Int8)
    /\ (lastOp = "Scan" /\ out.kind \in {"nil", "int64"} /\ arg = out) =>
          /\ err = "nil"
          /\ errJ = "nil"
          /\ i = Int8Struct(IF pre.Valid THEN pre.Int8 ELSE 0, pre.Valid)
          /\ j = i

C8_Witness ==
    /\ lastOp = "Scan"
    /\ out.kind = "nil"
    /\ arg = out
    /\ pre = NewInt8(5, FALSE)
    /\ i = Int8Struct(0, FALSE)

(***************************************************************************)
(* C9.                                                                     *)
(***************************************************************************)
\* the text of a JSON number or string document
Denoting(b) == IF b # <<>> /\ Head(b) = Quote THEN Inner(b) ELSE Trim(b)

\* C9: whenever UnmarshalJSON returns no error and leaves Valid = TRUE, the stored
\* value is the integer the JSON number or string denotes.
C9_NoTruncation ==
    (lastOp = "UnmarshalJSON" /\ err = "nil" /\ i.Valid) =>
        (DenotesInt(Denoting(arg.bytes)) /\ i.Int8 = DecVal(Denoting(arg.bytes)))

====
